---- MODULE Spec2Model ----
(***************************************************************************)
(* Model of the boxing application: RingModel (ring_model.py), the stats   *)
(* part of the boxer registry (boxers_model.py) and the random source      *)
(* (api_utils.py).                                                         *)
(*                                                                         *)
(* Numbers.  Skills are kept in tenths (skill * ReachDivisor), random      *)
(* numbers in hundredths (the source replies with two decimals), and the   *)
(* logistic threshold in units of 1 / ProbScale.                           *)
(*                                                                         *)
(* Records.  Every record constructor lists its fields in the order in     *)
(* which the field names first appear in this module, the order in which   *)
(* TLC stores a record, so that TLC's workers never reorder a record they  *)
(* share.                                                                  *)
(***************************************************************************)
EXTENDS Integers, Sequences, FiniteSets, TLC

(* ---------------- bounds of the model ---------------- *)

\* fights counted per boxer before the model stops recording more
MaxFights == 3

(* ---------------- program constants ---------------- *)

\* ring_model.py:36 and :99 -- a ring holds two boxers
RingCapacity == 2
\* ring_model.py:134 -- reach / 10
ReachDivisor == 10
\* ring_model.py:132 -- age limits of the age modifier
YoungAge == 25
OldAge == 35

\* fixed-point scales of ring_model.py:50, 1 / (1 + math.e ** (-delta))
ExpScale == 10000
ProbScale == 100000
\* math.e ** (-0.1) and math.e ** (-1), in units of 1 / ProbScale
ExpNegTenth == 90484
ExpNegOne == 36788
\* smallest delta (in tenths) at which the double 1 / (1 + e ** -delta) is
\* exactly 1.0: e ** -36.8 < 2 ** -53, so 1 + e ** -delta rounds to 1.0
SaturationDelta == 368
\* hundredths of the random number (random.org reply with dec=2)
RandomScale == 100

(* ---------------- values ---------------- *)

Boxer(id, name, weight, height, reach, age) ==
    [id |-> id, name |-> name, weight |-> weight, height |-> height,
     reach |-> reach, age |-> age, type |-> "Boxer", hasName |-> TRUE,
     hasId |-> TRUE]

\* an argument that is not a Boxer; hasName / hasId say whether the object
\* has the attributes .name and .id
NonBoxer(type, hasName, hasId) ==
    [id |-> 0, name |-> "", weight |-> 0, height |-> 0, reach |-> 0,
     age |-> 0, type |-> type, hasName |-> hasName, hasId |-> hasId]

\* the fixtures of tests/test_ring_model.py
boxer_1 == Boxer(1, "Joe", 230, 80, 90, 32)
boxer_2 == Boxer(2, "Bob", 210, 70, 80, 29)
\* a Boxer object that has no row in the registry and shares boxer_1's name
boxer_x == Boxer(3, "Joe", 230, 80, 91, 24)

Boxers == {boxer_1, boxer_2, boxer_x}

\* [boxer_1] of test_add_bad_boxer, a pathlib.Path (has .name, no .id) and
\* a Mock (has every attribute)
wrong_boxer == NonBoxer("list", FALSE, FALSE)
NonBoxers == {wrong_boxer, NonBoxer("PosixPath", TRUE, FALSE),
              NonBoxer("Mock", TRUE, TRUE)}

NoArg == NonBoxer("NoneType", FALSE, FALSE)

Args == Boxers \cup NonBoxers

\* ids that have a row in the boxers table
RegisteredIds == {1, 2}
AllIds == {1, 2, 3}

Results == {"win", "loss", "draw"}

\* replies of the random source: net is the outcome of requests.get and
\* raise_for_status, parsable whether float() accepts the text, value the
\* number in hundredths
Reply(net, parsable, value) ==
    [net |-> net, parsable |-> parsable, value |-> value]

RandomValues == {49, 50, 71, 72, 99}

Replies == {Reply("ok", TRUE, v) : v \in RandomValues}
           \cup {Reply("ok", FALSE, 0), Reply("timeout", FALSE, 0),
                 Reply("error", FALSE, 0)}

NoReply == Reply("none", FALSE, 0)

(* ---------------- state ---------------- *)

VARIABLES
    ring,       \* RingModel.ring
    registry,   \* boxers table: id -> [fights, wins]
    call,       \* the last call: operation and its inputs
    prevOp,     \* the operation called before the last one
    ringBefore, \* ring when the last call started
    registryBefore, \* registry when the last call started
    result,     \* what the last call raised or returned
    events,     \* collaborator calls made by the last call, in order
    table,      \* boxers table: id -> [name, weight, height, reach, age]
    tableBefore, \* table when the last call started
    value       \* what the last call returned, when it is not a name or the ring

vars == <<ring, registry, call, prevOp, ringBefore, registryBefore, result,
          events, table, tableBefore, value>>

Call(op, arg, res, reply, dbOkWin, dbOkLoss) ==
    [op |-> op, arg |-> arg, res |-> res, reply |-> reply,
     dbOkWin |-> dbOkWin, dbOkLoss |-> dbOkLoss]

\* exc = "none": the call returned; name is fight's return value, boxers is
\* get_boxers' return value
Raise(exc, msg) == [name |-> "", exc |-> exc, msg |-> msg, boxers |-> <<>>]
Return(name, boxers) ==
    [name |-> name, exc |-> "none", msg |-> "", boxers |-> boxers]

Event(ev, id, res, ok) == [id |-> id, res |-> res, ev |-> ev, ok |-> ok]

\* a returned number, string or list of rows
Value(num, str, rows) == [num |-> num, str |-> str, rows |-> rows]
NoValue == Value(0, "", <<>>)

\* the columns name, weight, height, reach, age of a row of the boxers table
Attributes(name, weight, height, reach, age) ==
    [name |-> name, weight |-> weight, height |-> height, reach |-> reach,
     age |-> age]

AttributesOf(boxer) ==
    Attributes(boxer.name, boxer.weight, boxer.height, boxer.reach, boxer.age)

(* ---------------- RingModel.get_fighting_skill ---------------- *)

AgeModifier_inclusive(age) ==
    IF age <= YoungAge THEN -1 ELSE (IF age >= OldAge THEN -2 ELSE 0)

\* ring_model.py:132
AgeModifier(age) == IF age < YoungAge THEN -1 ELSE (IF age > OldAge THEN -2 ELSE 0)

\* ring_model.py:134, in tenths: weight * len(name) + reach / 10 + age_modifier
get_fighting_skill(boxer) ==
    (boxer.weight * Len(boxer.name)) * ReachDivisor + boxer.reach
        + AgeModifier(boxer.age) * ReachDivisor

(* ---------------- the logistic threshold of fight ---------------- *)

Abs(x) == IF x < 0 THEN -x ELSE x
Min(a, b) == IF a < b THEN a ELSE b

\* math.e ** (-delta) for delta = k tenths, in units of 1 / ExpScale,
\* a factor e ** -1 per whole unit and e ** -0.1 per tenth, rounded to
\* nearest at every factor
RECURSIVE ExpNeg(_)
ExpNeg(k) ==
    IF k = 0 THEN ExpScale
    ELSE IF k >= ReachDivisor
    THEN (ExpNeg(k - ReachDivisor) * ExpNegOne + ProbScale \div 2) \div ProbScale
    ELSE (ExpNeg(k - 1) * ExpNegTenth + ProbScale \div 2) \div ProbScale

\* e ** -delta / (1 + e ** -delta), the logistic of -delta
NormalizedDelta_signFlipped(delta) ==
    IF delta >= SaturationDelta THEN 0
    ELSE (ProbScale * ExpNeg(delta)) \div (ExpScale + ExpNeg(delta))

\* ring_model.py:50, in units of 1 / ProbScale.  The double is exactly 1.0
\* from SaturationDelta on and strictly below 1.0 before it.
NormalizedDelta(delta) ==
    IF delta >= SaturationDelta THEN ProbScale
    ELSE Min((ProbScale * ExpScale) \div (ExpScale + ExpNeg(delta)),
             ProbScale - 1)

FirstWins_inverted(random_number, normalized_delta) ==
    random_number * (ProbScale \div RandomScale) >= normalized_delta

\* ring_model.py:55, random_number < normalized_delta
FirstWins(random_number, normalized_delta) ==
    random_number * (ProbScale \div RandomScale) < normalized_delta

(* ---------------- api_utils.get_random ---------------- *)

get_random_wraps(reply) ==
    IF reply.net = "timeout"
    THEN [value |-> 0, exc |-> "RuntimeError",
          msg |-> "Request to random.org timed out."]
    ELSE IF reply.net # "ok" \/ ~reply.parsable
    THEN [value |-> 0, exc |-> "RuntimeError",
          msg |-> "Request to random.org failed"]
    ELSE [value |-> reply.value, exc |-> "none", msg |-> ""]

get_random_swallows(reply) ==
    [value |-> IF reply.net = "ok" /\ reply.parsable THEN reply.value ELSE 0,
     exc |-> "none", msg |-> ""]

\* api_utils.py:28-54
get_random(reply) ==
    IF reply.net = "timeout"
    THEN [value |-> 0, exc |-> "RuntimeError",
          msg |-> "Request to random.org timed out."]
    ELSE IF reply.net # "ok"
    THEN [value |-> 0, exc |-> "RuntimeError",
          msg |-> "Request to random.org failed"]
    ELSE IF ~reply.parsable
    THEN [value |-> 0, exc |-> "ValueError",
          msg |-> "Invalid response from random.org"]
    ELSE [value |-> reply.value, exc |-> "none", msg |-> ""]

(* ---------------- boxers_model.update_boxer_stats ---------------- *)

UpdatedRow_lossAddsWin(row, res) ==
    [fights |-> row.fights + 1, wins |-> row.wins + 1]

UpdatedRow_winsOnly(row, res) ==
    IF res = "win"
    THEN [fights |-> row.fights, wins |-> row.wins + 1]
    ELSE [fights |-> row.fights + 1, wins |-> row.wins]

\* boxers_model.py:308-311, the UPDATE statements
UpdatedRow(row, res) ==
    IF res = "win"
    THEN [fights |-> row.fights + 1, wins |-> row.wins + 1]
    ELSE [fights |-> row.fights + 1, wins |-> row.wins]

\* boxers_model.py:297-316; dbOk = FALSE is a sqlite3.Error raised by the
\* connection before anything is committed
UpdateBoxerStatsOutcome(reg, boxer_id, res, dbOk) ==
    IF res \notin {"win", "loss"}
    THEN [registry |-> reg, exc |-> "ValueError", msg |-> "Invalid result"]
    ELSE IF ~dbOk
    THEN [registry |-> reg, exc |-> "sqlite3.Error", msg |-> "database error"]
    ELSE IF boxer_id \notin DOMAIN reg
    THEN [registry |-> reg, exc |-> "ValueError",
          msg |-> "Boxer with ID not found."]
    ELSE [registry |-> [reg EXCEPT ![boxer_id] = UpdatedRow(reg[boxer_id], res)],
          exc |-> "none", msg |-> ""]

(* ---------------- boxers_model.get_weight_class, Boxer ---------------- *)

\* boxers_model.py:271-277, the lowest weight of each class
HeavyweightMin == 203
MiddleweightMin == 166
LightweightMin == 133
FeatherweightMin == 125

WeightClass(exc, msg, class) == [exc |-> exc, msg |-> msg, class |-> class]

get_weight_class_strict(weight) ==
    IF weight > HeavyweightMin THEN WeightClass("none", "", "HEAVYWEIGHT")
    ELSE IF weight > MiddleweightMin THEN WeightClass("none", "", "MIDDLEWEIGHT")
    ELSE IF weight > LightweightMin THEN WeightClass("none", "", "LIGHTWEIGHT")
    ELSE IF weight > FeatherweightMin
    THEN WeightClass("none", "", "FEATHERWEIGHT")
    ELSE WeightClass("ValueError", "Invalid weight. Weight must be at least 125.",
                     "")

\* boxers_model.py:259-282
get_weight_class(weight) ==
    IF weight >= HeavyweightMin THEN WeightClass("none", "", "HEAVYWEIGHT")
    ELSE IF weight >= MiddleweightMin THEN WeightClass("none", "", "MIDDLEWEIGHT")
    ELSE IF weight >= LightweightMin THEN WeightClass("none", "", "LIGHTWEIGHT")
    ELSE IF weight >= FeatherweightMin
    THEN WeightClass("none", "", "FEATHERWEIGHT")
    ELSE WeightClass("ValueError", "Invalid weight. Weight must be at least 125.",
                     "")

\* boxers_model.py:37-38, Boxer.__post_init__ replaces the weight_class the
\* constructor was given
PostInit(weight, weight_class) == get_weight_class(weight)

(* ---------------- boxers_model.create_boxer, delete_boxer ---------------- *)

\* boxers_model.py:57 and :66
MinWeight == 125
MinAge == 18
MaxAge == 40

EvDb(statement) == Event("db", 0, statement, TRUE)

RegistryResult(res, tbl, reg, evs) ==
    [registry |-> reg, events |-> evs, table |-> tbl, res |-> res]

NameStored_unchecked(tbl, name) == FALSE

\* boxers_model.py:75-76, SELECT 1 FROM boxers WHERE name = ?
NameStored(tbl, name) == \E id \in DOMAIN tbl : tbl[id].name = name

\* boxers_model.py:79-84, the INSERT gives the row an id of its own and
\* leaves fights and wins at their defaults
Inserted(f, id, row) ==
    [i \in DOMAIN f \cup {id} |-> IF i = id THEN row ELSE f[i]]

\* boxers_model.py:116, DELETE FROM boxers WHERE id = ?
Deleted(f, id) == [i \in DOMAIN f \ {id} |-> f[i]]

AgeAllowed_exclusive(age) == MinAge < age /\ age < MaxAge

\* boxers_model.py:66
AgeAllowed(age) == MinAge <= age /\ age <= MaxAge

\* boxers_model.py:41-93; dbOk = FALSE is a sqlite3.Error raised by the
\* connection before anything is read or written
CreateBoxerOutcome(tbl, reg, name, weight, height, reach, age, dbOk, newId) ==
    IF weight < MinWeight
    THEN RegistryResult(Raise("ValueError", "Invalid weight. Must be at least 125."),
                        tbl, reg, <<>>)
    ELSE IF height <= 0
    THEN RegistryResult(Raise("ValueError", "Invalid height. Must be greater than 0."),
                        tbl, reg, <<>>)
    ELSE IF reach <= 0
    THEN RegistryResult(Raise("ValueError", "Invalid reach. Must be greater than 0."),
                        tbl, reg, <<>>)
    ELSE IF ~AgeAllowed(age)
    THEN RegistryResult(Raise("ValueError", "Invalid age. Must be between 18 and 40."),
                        tbl, reg, <<>>)
    ELSE IF ~dbOk
    THEN RegistryResult(Raise("sqlite3.Error", "database error"), tbl, reg, <<>>)
    ELSE IF NameStored(tbl, name)
    THEN RegistryResult(Raise("ValueError",
                              "Boxer with name '" \o name \o "' already exists"),
                        tbl, reg, <<EvDb("SELECT")>>)
    ELSE RegistryResult(Return("", <<>>),
                        Inserted(tbl, newId,
                                 Attributes(name, weight, height, reach, age)),
                        Inserted(reg, newId, [fights |-> 0, wins |-> 0]),
                        <<EvDb("SELECT"), EvDb("INSERT"), EvDb("COMMIT")>>)

\* boxers_model.py:96-122
DeleteBoxerOutcome(tbl, reg, boxer_id, dbOk) ==
    IF ~dbOk
    THEN RegistryResult(Raise("sqlite3.Error", "database error"), tbl, reg, <<>>)
    ELSE IF boxer_id \notin DOMAIN tbl
    THEN RegistryResult(Raise("ValueError", "Boxer with ID not found."),
                        tbl, reg, <<EvDb("SELECT")>>)
    ELSE RegistryResult(Return("", <<>>), Deleted(tbl, boxer_id),
                        Deleted(reg, boxer_id),
                        <<EvDb("SELECT"), EvDb("DELETE"), EvDb("COMMIT")>>)

(* ---------------- boxers_model.get_leaderboard ---------------- *)

\* boxers_model.py:143, WHERE fights > 0
OnLeaderboard(row) == row.fights > 0

MayPrecede_ascending(a, b, sort_by) ==
    IF sort_by = "win_pct"
    THEN a.wins * b.fights <= b.wins * a.fights
    ELSE a.wins <= b.wins

\* boxers_model.py:146-149, ORDER BY win_pct DESC / ORDER BY wins DESC: row a
\* may stand before row b.  wins * 1.0 / fights is compared as a fraction.
MayPrecede(a, b, sort_by) ==
    IF sort_by = "win_pct"
    THEN a.wins * b.fights >= b.wins * a.fights
    ELSE a.wins >= b.wins

\* boxers_model.py:146-152
SortByValid(sort_by) == sort_by \in {"win_pct", "wins"}

\* boxers_model.py:173, round(win_pct * 100, 1), in tenths of a percent
WinPct(wins, fights) == (2 * 1000 * wins + fights) \div (2 * fights)

\* boxers_model.py:163-174
LeaderboardRow(id, tbl, reg) ==
    [id |-> id, name |-> tbl[id].name, weight |-> tbl[id].weight,
     height |-> tbl[id].height, reach |-> tbl[id].reach, age |-> tbl[id].age,
     fights |-> reg[id].fights, wins |-> reg[id].wins,
     weight_class |-> get_weight_class(tbl[id].weight).class,
     win_pct |-> WinPct(reg[id].wins, reg[id].fights)]

Orderings(S) ==
    {s \in [1..Cardinality(S) -> S] :
        \A i, j \in 1..Cardinality(S) : i # j => s[i] # s[j]}

\* boxers_model.py:139-159, the orders in which the query may return the
\* selected rows; rows with equal keys come in any order
QueryOrders(reg, sort_by) ==
    {s \in Orderings({id \in DOMAIN reg : OnLeaderboard(reg[id])}) :
        \A i, j \in 1..Len(s) :
            i < j => MayPrecede(reg[s[i]], reg[s[j]], sort_by)}

(* ---------------- RingModel ---------------- *)

ClearRingOutcome_popsOne(r) == IF r = <<>> THEN r ELSE Tail(r)

\* ring_model.py:77-80
ClearRingOutcome(r) == IF r = <<>> THEN r ELSE <<>>

RingFull_offByOne(r) == Len(r) > RingCapacity

\* ring_model.py:99
RingFull(r) == Len(r) >= RingCapacity

\* ring_model.py:36
NotEnoughFighters(r) == Len(r) < RingCapacity

\* ring_model.py:93, the f-string reads boxer.name, then boxer.id
LogLineRaises(boxer) == ~boxer.hasName \/ ~boxer.hasId

MissingAttribute(boxer) == IF ~boxer.hasName THEN "name" ELSE "id"

EnterRingOutcome_prepends(r, boxer) ==
    IF LogLineRaises(boxer)
    THEN [ring |-> r, res |-> Raise("AttributeError", "no attribute")]
    ELSE IF boxer.type # "Boxer"
    THEN [ring |-> r, res |-> Raise("TypeError", "Invalid type")]
    ELSE IF RingFull(r)
    THEN [ring |-> r,
          res |-> Raise("ValueError", "Ring is full, cannot add more boxers.")]
    ELSE [ring |-> <<boxer>> \o r, res |-> Return("", <<>>)]

\* ring_model.py:93-104
EnterRingOutcome(r, boxer) ==
    IF LogLineRaises(boxer)
    THEN [ring |-> r,
          res |-> Raise("AttributeError",
                        "'" \o boxer.type \o "' object has no attribute '"
                            \o MissingAttribute(boxer) \o "'")]
    ELSE IF boxer.type # "Boxer"
    THEN [ring |-> r,
          res |-> Raise("TypeError",
                        "Invalid type: Expected 'Boxer', got '"
                            \o boxer.type \o "'")]
    ELSE IF RingFull(r)
    THEN [ring |-> r,
          res |-> Raise("ValueError", "Ring is full, cannot add more boxers.")]
    ELSE [ring |-> Append(r, boxer), res |-> Return("", <<>>)]

EvRandom(ok) == Event("get_random", 0, "", ok)
EvUpdate(id, res, ok) == Event("update_boxer_stats", id, res, ok)
EvClear == Event("clear_ring", 0, "", TRUE)

FightResult(res, r, reg, evs) ==
    [ring |-> r, registry |-> reg, events |-> evs, res |-> res]

NotEnoughOutcome_clears(r, reg) ==
    FightResult(Raise("ValueError",
                      "There must be two boxers to start a fight."),
                <<>>, reg, <<>>)

\* ring_model.py:36-38, the early raise touches nothing
NotEnoughOutcome(r, reg) ==
    FightResult(Raise("ValueError",
                      "There must be two boxers to start a fight."),
                r, reg, <<>>)

Propagate_clears(exc, msg, r, reg, evs) ==
    FightResult(Raise(exc, msg), <<>>, reg, evs)

\* ring_model.py:52-67, no try / except / finally around the collaborator
\* calls: an exception leaves fight with the ring as it is and the registry
\* as the calls made so far left it
Propagate(exc, msg, r, reg, evs) ==
    FightResult(Raise(exc, msg), r, reg, evs)

WinnerName_loser(winner, loser) == loser.name

\* ring_model.py:71, return winner.name
WinnerName(winner, loser) == winner.name

\* ring_model.py:35-71
FightOutcome(r, reg, reply, dbOkWin, dbOkLoss) ==
    IF NotEnoughFighters(r)
    THEN NotEnoughOutcome(r, reg)
    ELSE
    LET b1 == r[1]
        b2 == r[2]
        skill_1 == get_fighting_skill(b1)
        skill_2 == get_fighting_skill(b2)
        delta == Abs(skill_1 - skill_2)
        normalized_delta == NormalizedDelta(delta)
        rnd == get_random(reply)
    IN  IF rnd.exc # "none"
        THEN Propagate(rnd.exc, rnd.msg, r, reg, <<EvRandom(FALSE)>>)
        ELSE
        LET first == FirstWins(rnd.value, normalized_delta)
            winner == IF first THEN b1 ELSE b2
            loser == IF first THEN b2 ELSE b1
            w == UpdateBoxerStatsOutcome(reg, winner.id, "win", dbOkWin)
        IN  IF w.exc # "none"
            THEN Propagate(w.exc, w.msg, r, w.registry,
                           <<EvRandom(TRUE), EvUpdate(winner.id, "win", FALSE)>>)
            ELSE
            LET l == UpdateBoxerStatsOutcome(w.registry, loser.id, "loss",
                                             dbOkLoss)
            IN  IF l.exc # "none"
                THEN Propagate(l.exc, l.msg, r, l.registry,
                               <<EvRandom(TRUE),
                                 EvUpdate(winner.id, "win", TRUE),
                                 EvUpdate(loser.id, "loss", FALSE)>>)
                ELSE FightResult(Return(WinnerName(winner, loser), <<>>),
                                 ClearRingOutcome(r), l.registry,
                                 <<EvRandom(TRUE),
                                   EvUpdate(winner.id, "win", TRUE),
                                   EvUpdate(loser.id, "loss", TRUE),
                                   EvClear>>)

(* ---------------- initial state and operations ---------------- *)

\* RingModel.__init__ (ring_model.py:24); the registered boxers have not
\* fought yet
Init ==
    /\ ring = <<>>
    /\ registry = [id \in RegisteredIds |-> [fights |-> 0, wins |-> 0]]
    /\ call = Call("__init__", NoArg, "", NoReply, TRUE, TRUE)
    /\ prevOp = "none"
    /\ ringBefore = <<>>
    /\ registryBefore = registry
    /\ result = Return("", <<>>)
    /\ events = <<>>
    /\ table = [id \in RegisteredIds |->
                   AttributesOf(CHOOSE b \in Boxers : b.id = id)]
    /\ tableBefore = table
    /\ value = NoValue

\* a call starts: its inputs and the state it found are noted
Began(c) ==
    /\ call' = c
    /\ prevOp' = call.op
    /\ ringBefore' = ring
    /\ registryBefore' = registry
    /\ tableBefore' = table

\* a call of RingModel or update_boxer_stats: no operation of these inserts
\* or deletes a row or writes an attribute column
Started(c) ==
    /\ Began(c)
    /\ UNCHANGED table
    /\ value' = NoValue

\* the model stops counting a boxer's fights at MaxFights
RoomFor(n) == \A id \in DOMAIN registry : registry[id].fights + n <= MaxFights

enter_ring(boxer) ==
    LET out == EnterRingOutcome(ring, boxer)
    IN  /\ Started(Call("enter_ring", boxer, "", NoReply, TRUE, TRUE))
        /\ ring' = out.ring
        /\ result' = out.res
        /\ events' = <<>>
        /\ UNCHANGED registry

clear_ring ==
    /\ Started(Call("clear_ring", NoArg, "", NoReply, TRUE, TRUE))
    /\ ring' = ClearRingOutcome(ring)
    /\ result' = Return("", <<>>)
    /\ events' = <<>>
    /\ UNCHANGED registry

get_boxers_reversed ==
    /\ Started(Call("get_boxers", NoArg, "", NoReply, TRUE, TRUE))
    /\ result' = Return("", [i \in 1..Len(ring) |-> ring[Len(ring) + 1 - i]])
    /\ events' = <<>>
    /\ UNCHANGED <<ring, registry>>

\* ring_model.py:112-119
get_boxers ==
    /\ Started(Call("get_boxers", NoArg, "", NoReply, TRUE, TRUE))
    /\ result' = Return("", ring)
    /\ events' = <<>>
    /\ UNCHANGED <<ring, registry>>

fight_retriesRandom(reply, dbOkWin, dbOkLoss) ==
    LET out == FightOutcome(ring, registry, reply, dbOkWin, dbOkLoss)
    IN  /\ RoomFor(2)
        /\ Started(Call("fight", NoArg, "", reply, dbOkWin, dbOkLoss))
        /\ ring' = out.ring
        /\ registry' = out.registry
        /\ result' = out.res
        /\ events' = IF out.events = <<EvRandom(FALSE)>>
                     THEN <<EvRandom(FALSE), EvRandom(FALSE)>>
                     ELSE out.events

\* ring_model.py:26-71
fight(reply, dbOkWin, dbOkLoss) ==
    LET out == FightOutcome(ring, registry, reply, dbOkWin, dbOkLoss)
    IN  /\ RoomFor(2)
        /\ Started(Call("fight", NoArg, "", reply, dbOkWin, dbOkLoss))
        /\ ring' = out.ring
        /\ registry' = out.registry
        /\ result' = out.res
        /\ events' = out.events

update_boxer_stats(boxer_id, res, dbOk) ==
    LET out == UpdateBoxerStatsOutcome(registry, boxer_id, res, dbOk)
    IN  /\ RoomFor(1)
        /\ Started(Call("update_boxer_stats", [NoArg EXCEPT !.id = boxer_id],
                        res, NoReply, dbOk, TRUE))
        /\ registry' = out.registry
        /\ result' = Raise(out.exc, out.msg)
        /\ events' = <<>>
        /\ UNCHANGED ring

Next ==
    \/ \E boxer \in Args : enter_ring(boxer)
    \/ clear_ring
    \/ get_boxers
    \/ \E reply \in Replies, dbOkWin \in BOOLEAN, dbOkLoss \in BOOLEAN :
          fight(reply, dbOkWin, dbOkLoss)
    \/ \E boxer_id \in AllIds, res \in Results, dbOk \in BOOLEAN :
          update_boxer_stats(boxer_id, res, dbOk)

Spec == Init /\ [][Next]_vars

TypeOK ==
    /\ ring \in Seq(Boxers)
    /\ DOMAIN registry = RegisteredIds

(* ---------------- the boxer registry ---------------- *)

Names == {"Joe", "Bob"}

\* the ids the boxers table hands out to new rows, in any order
TableIds == {1, 2}

\* weight, height, reach, age of the create_boxer tests, and the ages 18 and
\* 40 at the ends of the allowed range
CreateProbes ==
    {<<150, 70, 70, 18>>, <<150, 70, 70, 40>>, <<124, 70, 70, 25>>,
     <<150, 0, 70, 25>>, <<150, -5, 70, 25>>, <<150, 70, 0, 25>>,
     <<150, 70, -10, 25>>, <<150, 70, 70, 17>>, <<150, 70, 70, 41>>,
     <<124, 0, 0, 17>>}

SortBys == {"wins", "win_pct", "invalid_sort"}

NewArgs(name, weight, height, reach, age) ==
    [NoArg EXCEPT !.name = name, !.weight = weight, !.height = height,
                  !.reach = reach, !.age = age]

\* an empty boxers table and no ring in use
InitRegistry ==
    /\ ring = <<>>
    /\ registry = <<>>
    /\ table = <<>>
    /\ call = Call("__init__", NoArg, "", NoReply, TRUE, TRUE)
    /\ prevOp = "none"
    /\ ringBefore = <<>>
    /\ registryBefore = registry
    /\ tableBefore = table
    /\ result = Return("", <<>>)
    /\ events = <<>>
    /\ value = NoValue

create_boxer(name, weight, height, reach, age, dbOk, newId) ==
    LET out == CreateBoxerOutcome(table, registry, name, weight, height,
                                  reach, age, dbOk, newId)
    IN  /\ newId \notin DOMAIN table
        /\ Began(Call("create_boxer",
                      NewArgs(name, weight, height, reach, age), "", NoReply,
                      dbOk, TRUE))
        /\ table' = out.table
        /\ registry' = out.registry
        /\ result' = out.res
        /\ events' = out.events
        /\ value' = NoValue
        /\ UNCHANGED ring

delete_boxer(boxer_id, dbOk) ==
    LET out == DeleteBoxerOutcome(table, registry, boxer_id, dbOk)
    IN  /\ Began(Call("delete_boxer", [NoArg EXCEPT !.id = boxer_id], "",
                      NoReply, dbOk, TRUE))
        /\ table' = out.table
        /\ registry' = out.registry
        /\ result' = out.res
        /\ events' = out.events
        /\ value' = NoValue
        /\ UNCHANGED ring

\* boxers_model.py:125-182
get_leaderboard(sort_by, dbOk) ==
    /\ Began(Call("get_leaderboard", NoArg, sort_by, NoReply, dbOk, TRUE))
    /\ UNCHANGED <<ring, registry, table>>
    /\ IF ~SortByValid(sort_by)
       THEN /\ result' = Raise("ValueError", "Invalid sort_by parameter")
            /\ value' = NoValue
            /\ events' = <<>>
       ELSE IF ~dbOk
       THEN /\ result' = Raise("sqlite3.Error", "database error")
            /\ value' = NoValue
            /\ events' = <<>>
       ELSE \E rows \in QueryOrders(registry, sort_by) :
            /\ result' = Return("", <<>>)
            /\ value' = Value(0, "", [i \in 1..Len(rows) |->
                                        LeaderboardRow(rows[i], table, registry)])
            /\ events' = <<EvDb("SELECT")>>

NextRegistry ==
    \/ \E name \in Names, probe \in CreateProbes, dbOk \in BOOLEAN,
          newId \in TableIds :
          create_boxer(name, probe[1], probe[2], probe[3], probe[4], dbOk,
                       newId)
    \/ \E boxer_id \in TableIds, dbOk \in BOOLEAN : delete_boxer(boxer_id, dbOk)
    \/ \E sort_by \in SortBys, dbOk \in BOOLEAN : get_leaderboard(sort_by, dbOk)
    \/ \E boxer_id \in TableIds, res \in Results, dbOk \in BOOLEAN :
          update_boxer_stats(boxer_id, res, dbOk)

RegistrySpec == InitRegistry /\ [][NextRegistry]_vars

(* ---------------- the functions, called on their own ---------------- *)

\* boxers that put the age limits, and the gap at which the threshold
\* reaches 1.0, among the inputs
AgeProbes == {24, 25, 35, 36}
SkillBoxers ==
    Boxers \cup {Boxer(9, name, 230, 70, reach, age) :
                    name \in {"Joe", "Dave"}, reach \in {68, 90},
                    age \in AgeProbes}

\* skills 699.0, 662.3 and 662.2: gaps of 0, 36.7 and 36.8 with boxer_1
boxer_even == Boxer(4, "Sam", 230, 80, 90, 30)
boxer_near == Boxer(5, "Moe", 218, 75, 83, 30)
boxer_far == Boxer(6, "Moe", 218, 75, 82, 30)
ThresholdBoxers == Boxers \cup {boxer_even, boxer_near, boxer_far}

FnRings ==
    {<<>>} \cup {<<b>> : b \in ThresholdBoxers}
           \cup {<<a, b>> : a \in ThresholdBoxers, b \in ThresholdBoxers}

\* the weights of test_get_weight_class and test_get_weight_class_bad
WeightProbes == {-10, 0, 124, 125, 132, 133, 165, 166, 202, 203, 250}
ClassProbes == {"", "HEAVYWEIGHT", "FEATHERWEIGHT"}

InitFn ==
    /\ ring \in FnRings
    /\ registry = [id \in RegisteredIds |-> [fights |-> 0, wins |-> 0]]
    /\ call = Call("__init__", NoArg, "", NoReply, TRUE, TRUE)
    /\ prevOp = "none"
    /\ ringBefore = ring
    /\ registryBefore = registry
    /\ result = Return("", <<>>)
    /\ events = <<>>
    /\ table = [id \in RegisteredIds |->
                   AttributesOf(CHOOSE b \in Boxers : b.id = id)]
    /\ tableBefore = table
    /\ value = NoValue

\* a function that reads its arguments (or the ring) and writes nothing
Pure(c, res, val) ==
    /\ Began(c)
    /\ result' = res
    /\ value' = val
    /\ events' = <<>>
    /\ UNCHANGED <<ring, registry, table>>

\* RingModel.get_fighting_skill (ring_model.py:121-137)
call_get_fighting_skill(boxer) ==
    Pure(Call("get_fighting_skill", boxer, "", NoReply, TRUE, TRUE),
         Return("", <<>>), Value(get_fighting_skill(boxer), "", <<>>))

\* ring_model.py:40-51, the threshold fight computes for the boxers in the ring
fight_threshold ==
    /\ ~NotEnoughFighters(ring)
    /\ LET skill_1 == get_fighting_skill(ring[1])
           skill_2 == get_fighting_skill(ring[2])
           delta == Abs(skill_1 - skill_2)
       IN  Pure(Call("fight_threshold", NoArg, "", NoReply, TRUE, TRUE),
                Return("", <<>>), Value(NormalizedDelta(delta), "", <<>>))

\* api_utils.get_random (api_utils.py:16-54)
call_get_random(reply) ==
    LET out == get_random(reply)
    IN  Pure(Call("get_random", NoArg, "", reply, TRUE, TRUE),
             IF out.exc = "none" THEN Return("", <<>>)
                                 ELSE Raise(out.exc, out.msg),
             Value(out.value, "", <<>>))

\* boxers_model.get_weight_class (boxers_model.py:259-282)
call_get_weight_class(weight) ==
    LET out == get_weight_class(weight)
    IN  Pure(Call("get_weight_class", [NoArg EXCEPT !.weight = weight], "",
                  NoReply, TRUE, TRUE),
             IF out.exc = "none" THEN Return("", <<>>)
                                 ELSE Raise(out.exc, out.msg),
             Value(0, out.class, <<>>))

\* Boxer(..., weight, ..., weight_class) (boxers_model.py:14-38)
call_Boxer(weight, weight_class) ==
    LET out == PostInit(weight, weight_class)
    IN  Pure(Call("Boxer", [NoArg EXCEPT !.weight = weight], weight_class,
                  NoReply, TRUE, TRUE),
             IF out.exc = "none" THEN Return("", <<>>)
                                 ELSE Raise(out.exc, out.msg),
             Value(0, out.class, <<>>))

NextFn ==
    \/ \E boxer \in SkillBoxers : call_get_fighting_skill(boxer)
    \/ fight_threshold
    \/ \E reply \in Replies : call_get_random(reply)
    \/ \E weight \in WeightProbes : call_get_weight_class(weight)
    \/ \E weight \in WeightProbes, weight_class \in ClassProbes :
          call_Boxer(weight, weight_class)

FnSpec == InitFn /\ [][NextFn]_vars

(* ---------------- properties ---------------- *)

FullBefore == Len(ringBefore) = 2

\* the update_boxer_stats calls among the last call's events
UpdateEvents == SelectSeq(events, LAMBDA e : e.ev = "update_boxer_stats")

\* the registry after one more recorded result
Recorded(reg, id, res) ==
    [reg EXCEPT ![id] =
        [fights |-> reg[id].fights + 1,
         wins |-> reg[id].wins + (IF res = "win" THEN 1 ELSE 0)]]

\* C1: in every reachable state the ring holds at most 2 competitors.
C1_RingAtMostTwo == Len(ring) <= 2

C1_Witness ==
    /\ call.op = "enter_ring"
    /\ result.exc = "none"
    /\ Len(ring) = 2

\* C2: enter_ring with a Boxer on a ring that holds 2 boxers raises the
\* ring-full ValueError and leaves the ring's contents and order as they were.
C2_FullRingRejects ==
    (call.op = "enter_ring" /\ call.arg.type = "Boxer" /\ FullBefore)
        => /\ result.exc = "ValueError"
           /\ result.msg = "Ring is full, cannot add more boxers."
           /\ ring = ringBefore
           /\ Len(ring) = 2

C2_Witness ==
    /\ call.op = "enter_ring"
    /\ call.arg = boxer_x
    /\ ringBefore = <<boxer_1, boxer_2>>
    /\ result.exc = "ValueError"

\* C3: fight on a ring of 0 or 1 boxers raises ValueError and changes
\* nothing: same ring, random source not consulted, no result recorded.
C3_FightNeedsTwo ==
    (call.op = "fight" /\ Len(ringBefore) < 2)
        => /\ result.exc = "ValueError"
           /\ result.msg = "There must be two boxers to start a fight."
           /\ ring = ringBefore
           /\ registry = registryBefore
           /\ events = <<>>

C3_Witness ==
    /\ call.op = "fight"
    /\ Len(ringBefore) = 1
    /\ result.exc = "ValueError"
    /\ ring = ringBefore

C5_FirstEnteredWinsBelowThreshold ==
    (call.op = "fight" /\ FullBefore /\ call.reply.net = "ok"
        /\ call.reply.parsable)
        => LET a == ringBefore[1]
               b == ringBefore[2]
               gap == Abs(get_fighting_skill(a) - get_fighting_skill(b))
               below == call.reply.value * (ProbScale \div RandomScale)
                            < NormalizedDelta(gap)
               winner == IF below THEN a ELSE b
               loser == IF below THEN b ELSE a
           IN  /\ Len(UpdateEvents) >= 1
               /\ UpdateEvents[1].id = winner.id
               /\ UpdateEvents[1].res = "win"
               /\ Len(UpdateEvents) = 2
                    => /\ UpdateEvents[2].id = loser.id
                       /\ UpdateEvents[2].res = "loss"
               /\ result.exc = "none" => result.name = winner.name

\* the first-entered boxer wins although the second has the higher skill
C5_Witness ==
    /\ call.op = "fight"
    /\ ringBefore = <<boxer_2, boxer_1>>
    /\ get_fighting_skill(boxer_2) < get_fighting_skill(boxer_1)
    /\ call.reply.net = "ok" /\ call.reply.parsable
    /\ result.exc = "none"
    /\ result.name = "Bob"
    /\ registry[2].wins = registryBefore[2].wins + 1

\* C6 as stated: enter_ring with an argument that is not a Boxer raises
\* TypeError "Invalid type: Expected 'Boxer', got '<type name>'" in every ring
\* state and leaves the ring unchanged.
C6_NonBoxerRaisesTypeError ==
    (call.op = "enter_ring" /\ call.arg.type # "Boxer")
        => /\ result.exc = "TypeError"
           /\ result.msg = "Invalid type: Expected 'Boxer', got '"
                              \o call.arg.type \o "'"
           /\ ring = ringBefore

\* C7: when the random source fails during fight on a full ring, its error
\* reaches the caller, the ring holds the same two boxers in the same order
\* and no win or loss has been recorded.
C7_RandomFailurePropagates ==
    (call.op = "fight" /\ FullBefore
        /\ (call.reply.net # "ok" \/ ~call.reply.parsable))
        => /\ call.reply.net = "timeout"
                => /\ result.exc = "RuntimeError"
                   /\ result.msg = "Request to random.org timed out."
           /\ call.reply.net = "error"
                => /\ result.exc = "RuntimeError"
                   /\ result.msg = "Request to random.org failed"
           /\ call.reply.net = "ok"
                => /\ result.exc = "ValueError"
                   /\ result.msg = "Invalid response from random.org"
           /\ ring = ringBefore
           /\ registry = registryBefore
           /\ UpdateEvents = <<>>

C7_Witness ==
    /\ call.op = "fight"
    /\ ringBefore = <<boxer_1, boxer_2>>
    /\ call.reply.net = "timeout"
    /\ result.exc = "RuntimeError"
    /\ ring = ringBefore

\* C8: when update_boxer_stats raises during fight, the error reaches the
\* caller and the ring still holds the same two boxers; if the winner's
\* recording failed nothing is recorded at all, if the loser's recording
\* failed the winner's win stays recorded.
C8_RecordingFailureKeepsRing ==
    (call.op = "fight" /\ \E i \in 1..Len(events) :
                             events[i].ev = "update_boxer_stats" /\ ~events[i].ok)
        => /\ FullBefore
           /\ ring = ringBefore
           /\ \/ /\ Len(UpdateEvents) = 1
                 /\ UpdateEvents[1].res = "win"
                 /\ result.exc = (IF call.dbOkWin THEN "ValueError"
                                                  ELSE "sqlite3.Error")
                 /\ registry = registryBefore
              \/ /\ Len(UpdateEvents) = 2
                 /\ UpdateEvents[1].res = "win" /\ UpdateEvents[1].ok
                 /\ UpdateEvents[2].res = "loss"
                 /\ result.exc = (IF call.dbOkLoss THEN "ValueError"
                                                   ELSE "sqlite3.Error")
                 /\ registry = Recorded(registryBefore, UpdateEvents[1].id,
                                        "win")

\* the loser's recording failed after the winner's win was recorded
C8_Witness ==
    /\ call.op = "fight"
    /\ ringBefore = <<boxer_1, boxer_x>>
    /\ ring = ringBefore
    /\ result.exc = "ValueError"
    /\ Len(UpdateEvents) = 2
    /\ ~UpdateEvents[2].ok
    /\ registry[1].wins = registryBefore[1].wins + 1

\* C9: a fight that returns has recorded exactly two results: first one
\* 'win' for the winner's id, then one 'loss' for the loser's id, and
\* nothing for any other boxer.
C9_TwoResultsPerFight ==
    (call.op = "fight" /\ result.exc = "none")
        => \E i \in 1..2 :
             LET winner == ringBefore[i]
                 loser == ringBefore[3 - i]
             IN  /\ result.name = winner.name
                 /\ UpdateEvents = <<EvUpdate(winner.id, "win", TRUE),
                                     EvUpdate(loser.id, "loss", TRUE)>>
                 /\ registry = Recorded(Recorded(registryBefore, winner.id,
                                                 "win"),
                                        loser.id, "loss")

C9_Witness ==
    /\ call.op = "fight"
    /\ result.exc = "none"
    /\ ringBefore = <<boxer_1, boxer_2>>
    /\ UpdateEvents = <<EvUpdate(1, "win", TRUE), EvUpdate(2, "loss", TRUE)>>
    /\ registry[1] = [fights |-> registryBefore[1].fights + 1,
                      wins |-> registryBefore[1].wins + 1]
    /\ registry[2] = [fights |-> registryBefore[2].fights + 1,
                      wins |-> registryBefore[2].wins]

\* C10: clear_ring returns without error from a ring of 0, 1 or 2 boxers and
\* leaves the ring empty; a second clear_ring right after it finds the ring
\* empty and leaves it as the first one did.
C10_ClearRingIdempotent ==
    /\ call.op = "clear_ring" => (result.exc = "none" /\ ring = <<>>)
    /\ (call.op = "clear_ring" /\ prevOp = "clear_ring")
          => (ringBefore = <<>> /\ ring = ringBefore)

C10_Witness ==
    /\ call.op = "clear_ring"
    /\ prevOp = "clear_ring"
    /\ ring = <<>>
    /\ result.exc = "none"

\* C11: enter_ring with a Boxer on a ring of 0 or 1 boxers returns, appends
\* that boxer at the end (the length grows by exactly 1) and leaves a boxer
\* already in the ring at its position.
C11_EnterAppends ==
    (call.op = "enter_ring" /\ call.arg.type = "Boxer" /\ Len(ringBefore) < 2)
        => /\ result.exc = "none"
           /\ Len(ring) = Len(ringBefore) + 1
           /\ ring[Len(ring)] = call.arg
           /\ \A i \in 1..Len(ringBefore) : ring[i] = ringBefore[i]

C11_Witness ==
    /\ call.op = "enter_ring"
    /\ call.arg = boxer_2
    /\ ringBefore = <<boxer_1>>
    /\ ring = <<boxer_1, boxer_2>>

\* C12: get_boxers returns the boxers in the ring in entry order (0, 1 or 2
\* of them), raises nothing, also on an empty ring, and changes nothing.
C12_GetBoxersReturnsRing ==
    call.op = "get_boxers"
        => /\ result.exc = "none"
           /\ result.boxers = ringBefore
           /\ Len(result.boxers) <= 2
           /\ ring = ringBefore
           /\ registry = registryBefore

C12_Witness ==
    /\ call.op = "get_boxers"
    /\ ringBefore = <<boxer_2, boxer_1>>
    /\ result.boxers = <<boxer_2, boxer_1>>
    /\ ring = ringBefore

\* what the last call left alone
NothingWritten ==
    /\ ring = ringBefore
    /\ registry = registryBefore
    /\ table = tableBefore

\* C13: get_fighting_skill(boxer) is weight * len(name) + reach / 10 +
\* ageModifier, with ageModifier -1 below 25, -2 above 35 and 0 from 25 to 35;
\* it writes nothing (Joe/230/90/32 gives 699, Bob/210/80/29 gives 638).
\* The value is in tenths.
C13_SkillFormula ==
    call.op = "get_fighting_skill"
        => LET b == call.arg
               ageModifier == IF b.age < 25 THEN -1
                              ELSE IF b.age > 35 THEN -2 ELSE 0
           IN  /\ result.exc = "none"
               /\ value.num = 10 * (b.weight * Len(b.name) + ageModifier)
                                 + b.reach
               /\ b = boxer_1 => value.num = 6990
               /\ b = boxer_2 => value.num = 6380
               /\ NothingWritten

C13_Witness ==
    /\ call.op = "get_fighting_skill"
    /\ call.arg.age = 25
    /\ call.arg.name = "Dave"
    /\ call.arg.reach = 68
    /\ value.num = 9268
    /\ ring = <<boxer_1, boxer_2>>

\* the gap between the skills of the two boxers fight was called on, in tenths
SkillGap ==
    Abs(get_fighting_skill(ringBefore[1]) - get_fighting_skill(ringBefore[2]))

\* C14 as stated: the threshold of fight lies in [0.5, 1.0), strictly below
\* 1.0 however large the skill gap, and is exactly 0.5 for equal skills.
C14_ThresholdBelowOne ==
    call.op = "fight_threshold"
        => /\ 2 * value.num >= ProbScale
           /\ value.num < ProbScale
           /\ SkillGap = 0 => 2 * value.num = ProbScale

\* C14 amended: the threshold lies in [0.5, 1.0]; it is exactly 0.5 for equal
\* skills, strictly below 1.0 for a gap below 36.8 and exactly 1.0 from 36.8
\* on, where the double 1 + e ** -delta is 1.0.
C14_ThresholdAtMostOne ==
    call.op = "fight_threshold"
        => /\ 2 * value.num >= ProbScale
           /\ value.num <= ProbScale
           /\ SkillGap = 0 => 2 * value.num = ProbScale
           /\ SkillGap < 368 => value.num < ProbScale
           /\ SkillGap >= 368 => value.num = ProbScale

\* the pair of the tests, 699 against 638
C14_Witness ==
    /\ call.op = "fight_threshold"
    /\ ringBefore = <<boxer_1, boxer_2>>
    /\ SkillGap = 610
    /\ value.num = ProbScale

\* C16: get_random raises RuntimeError for a timeout and for any other
\* request failure, ValueError (not RuntimeError) for a fetched reply that is
\* not a number, and returns no value in these cases.
C16_RandomFailureKinds ==
    call.op = "get_random"
        => /\ call.reply.net = "timeout"
                => /\ result.exc = "RuntimeError"
                   /\ result.msg = "Request to random.org timed out."
           /\ call.reply.net = "error" => result.exc = "RuntimeError"
           /\ (call.reply.net = "ok" /\ ~call.reply.parsable)
                => result.exc = "ValueError"
           /\ (call.reply.net = "ok" /\ call.reply.parsable)
                => (result.exc = "none" /\ value.num = call.reply.value)
           /\ result.exc # "none" => value = NoValue

C16_Witness ==
    /\ call.op = "get_random"
    /\ call.reply = Reply("ok", FALSE, 0)
    /\ result.exc = "ValueError"
    /\ value = NoValue

\* C17: get_weight_class is HEAVYWEIGHT from 203, MIDDLEWEIGHT from 166 to
\* 202, LIGHTWEIGHT from 133 to 165, FEATHERWEIGHT from 125 to 132 and raises
\* ValueError below 125; a new Boxer's weight_class is that class of its
\* weight, whatever class the constructor was given.
C17_WeightClasses ==
    call.op \in {"get_weight_class", "Boxer"}
        => LET w == call.arg.weight
           IN  /\ w >= 203
                    => (result.exc = "none" /\ value.str = "HEAVYWEIGHT")
               /\ (166 <= w /\ w <= 202)
                    => (result.exc = "none" /\ value.str = "MIDDLEWEIGHT")
               /\ (133 <= w /\ w <= 165)
                    => (result.exc = "none" /\ value.str = "LIGHTWEIGHT")
               /\ (125 <= w /\ w <= 132)
                    => (result.exc = "none" /\ value.str = "FEATHERWEIGHT")
               /\ w < 125 => (result.exc = "ValueError" /\ value.str = "")

C17_Witness ==
    /\ call.op = "Boxer"
    /\ call.arg.weight = 202
    /\ call.res = "HEAVYWEIGHT"
    /\ value.str = "MIDDLEWEIGHT"

\* C15: update_boxer_stats(id, result) on a stored id adds 1 to fights and
\* wins for 'win' and 1 to fights alone for 'loss' and touches no other row;
\* a result other than 'win' or 'loss', or an id that is not stored, raises
\* ValueError and changes no row.
C15_UpdateBoxerStats ==
    call.op = "update_boxer_stats"
        => LET id == call.arg.id
               valid == call.res \in {"win", "loss"}
               stored == id \in DOMAIN registryBefore
               dbOk == call.dbOkWin
           IN  /\ ~valid => result.exc = "ValueError"
               /\ (valid /\ dbOk /\ ~stored) => result.exc = "ValueError"
               /\ result.exc # "none" => registry = registryBefore
               /\ (valid /\ dbOk /\ stored)
                    => /\ result.exc = "none"
                       /\ DOMAIN registry = DOMAIN registryBefore
                       /\ registry[id].fights = registryBefore[id].fights + 1
                       /\ registry[id].wins = registryBefore[id].wins
                              + (IF call.res = "win" THEN 1 ELSE 0)
                       /\ \A other \in DOMAIN registry \ {id} :
                             registry[other] = registryBefore[other]
               /\ ring = ringBefore
               /\ table = tableBefore

C15_Witness ==
    /\ call.op = "update_boxer_stats"
    /\ call.arg.id = 2
    /\ call.res = "loss"
    /\ result.exc = "none"
    /\ registryBefore[2] = [fights |-> 1, wins |-> 1]
    /\ registry[2] = [fights |-> 2, wins |-> 1]
    /\ registry[1] = registryBefore[1]

\* the attributes the last create_boxer call was given break a rule
InvalidAttributes ==
    \/ call.arg.weight < 125
    \/ call.arg.height <= 0
    \/ call.arg.reach <= 0
    \/ call.arg.age < 18
    \/ call.arg.age > 40

\* C18: create_boxer with weight < 125, height <= 0, reach <= 0 or an age
\* outside 18..40 raises ValueError without touching the registry and leaves
\* the stored boxers as they were; the ages 18 and 40 are accepted.
C18_CreateRejectsInvalid ==
    call.op = "create_boxer"
        => /\ InvalidAttributes
                => /\ result.exc = "ValueError"
                   /\ events = <<>>
                   /\ table = tableBefore
                   /\ registry = registryBefore
           /\ call.arg.weight < 125
                => result.msg = "Invalid weight. Must be at least 125."
           /\ (~InvalidAttributes /\ call.dbOkWin
                 /\ \A id \in DOMAIN tableBefore :
                       tableBefore[id].name # call.arg.name)
                => /\ result.exc = "none"
                   /\ \E id \in DOMAIN table \ DOMAIN tableBefore :
                         /\ table[id].name = call.arg.name
                         /\ table[id].age = call.arg.age

\* age 41 is rejected while a boxer of age 40 is stored
C18_Witness ==
    /\ call.op = "create_boxer"
    /\ call.arg.age = 41
    /\ result.exc = "ValueError"
    /\ \E id \in DOMAIN table : table[id].age = 40
    /\ table = tableBefore

\* C19: no two stored boxers share a name; create_boxer with a stored name
\* raises ValueError "Boxer with name '<name>' already exists" and inserts
\* nothing.
C19_NamesUnique ==
    /\ \A i, j \in DOMAIN table : i # j => table[i].name # table[j].name
    /\ (call.op = "create_boxer" /\ ~InvalidAttributes /\ call.dbOkWin
          /\ \E id \in DOMAIN tableBefore :
                tableBefore[id].name = call.arg.name)
          => /\ result.exc = "ValueError"
             /\ result.msg = "Boxer with name '" \o call.arg.name
                                \o "' already exists"
             /\ table = tableBefore
             /\ registry = registryBefore

\* Bob is created again after a delete_boxer left an id free
C19_Witness ==
    /\ call.op = "create_boxer"
    /\ call.arg.name = "Bob"
    /\ prevOp = "delete_boxer"
    /\ result.msg = "Boxer with name 'Bob' already exists"
    /\ Cardinality(DOMAIN table) = 1
    /\ table = tableBefore

\* C20: get_leaderboard returns exactly the stored boxers with fights > 0,
\* by non-increasing wins for sort_by = 'wins' and by non-increasing win
\* percentage for sort_by = 'win_pct'; another sort_by raises ValueError
\* without reading the registry; the call never changes the registry.
C20_Leaderboard ==
    call.op = "get_leaderboard"
        => /\ NothingWritten
           /\ call.res \notin {"wins", "win_pct"}
                => (result.exc = "ValueError" /\ events = <<>>)
           /\ (call.res \in {"wins", "win_pct"} /\ call.dbOkWin)
                => result.exc = "none"
           /\ result.exc = "none"
                => LET rows == value.rows
                       fought == {id \in DOMAIN registry :
                                     registry[id].fights > 0}
                   IN  /\ {rows[i].id : i \in 1..Len(rows)} = fought
                       /\ Len(rows) = Cardinality(fought)
                       /\ \A i \in 1..Len(rows) :
                             /\ rows[i].fights = registry[rows[i].id].fights
                             /\ rows[i].wins = registry[rows[i].id].wins
                             /\ rows[i].name = table[rows[i].id].name
                             /\ rows[i].fights > 0
                       /\ \A i, j \in 1..Len(rows) :
                             i < j =>
                               IF call.res = "wins"
                               THEN rows[i].wins >= rows[j].wins
                               ELSE /\ rows[i].win_pct >= rows[j].win_pct
                                    /\ rows[i].wins * rows[j].fights
                                          >= rows[j].wins * rows[i].fights

\* by win percentage the boxer with fewer wins comes first, and a boxer
\* without fights is left out
C20_Witness ==
    /\ call.op = "get_leaderboard"
    /\ call.res = "win_pct"
    /\ Len(value.rows) = 2
    /\ value.rows[1].wins = 1 /\ value.rows[1].win_pct = 1000
    /\ value.rows[2].wins = 2 /\ value.rows[2].win_pct = 667

\* the get_random calls among the last call's events
RandomEvents == SelectSeq(events, LAMBDA e : e.ev = "get_random")

\* C21: one fight call on a full ring consults the random source at most
\* once and before any result is recorded, attempts each of the two results
\* at most once, and clears the ring only after both results were recorded
\* successfully.
C21_FightOrder ==
    (call.op = "fight" /\ FullBefore)
        => /\ Len(RandomEvents) <= 1
           /\ \A i \in 1..Len(events) :
                 events[i].ev = "update_boxer_stats"
                    => \E j \in 1..(i - 1) :
                          events[j].ev = "get_random" /\ events[j].ok
           /\ \A res \in {"win", "loss"} :
                 Cardinality({i \in 1..Len(events) :
                                 /\ events[i].ev = "update_boxer_stats"
                                 /\ events[i].res = res}) <= 1
           /\ Len(UpdateEvents) <= 2
           /\ \A i \in 1..Len(events) :
                 events[i].ev = "clear_ring"
                    => \E j, k \in 1..(i - 1) :
                          /\ j < k
                          /\ events[j].ev = "update_boxer_stats"
                          /\ events[j].res = "win" /\ events[j].ok
                          /\ events[k].ev = "update_boxer_stats"
                          /\ events[k].res = "loss" /\ events[k].ok
           /\ ring # ringBefore
                 => \E i \in 1..Len(events) : events[i].ev = "clear_ring"

\* a fight that ran through: random number, win, loss, clear
C21_Witness ==
    /\ call.op = "fight"
    /\ FullBefore
    /\ Len(events) = 4
    /\ events[1] = EvRandom(TRUE)
    /\ events[2].res = "win" /\ events[3].res = "loss"
    /\ events[4] = EvClear
    /\ ring = <<>>

\* C22: every boxer of the registry has wins <= fights, in every state
\* reached by update_boxer_stats and fight calls, failed ones included, from
\* wins = fights = 0.
C22_WinsAtMostFights ==
    \A id \in DOMAIN registry : registry[id].wins <= registry[id].fights

\* a fight stopped at the loser's recording: the winner has as many wins as
\* fights
C22_Witness ==
    /\ call.op = "fight"
    /\ result.exc # "none"
    /\ Len(UpdateEvents) = 2
    /\ \E id \in DOMAIN registry :
          /\ registry[id].fights = registryBefore[id].fights + 1
          /\ registry[id].wins = registry[id].fights
          /\ registry[id].wins >= 2

\* C23: the two boxers of a full ring have different ids, so a fight that
\* returns records its win and its loss for two different ids and adds at
\* most one fight to any boxer.
C23_CompetitorsDistinct ==
    /\ Len(ring) = 2 => ring[1].id # ring[2].id
    /\ (call.op = "fight" /\ result.exc = "none")
          => /\ UpdateEvents[1].id # UpdateEvents[2].id
             /\ \A id \in DOMAIN registry :
                   registry[id].fights <= registryBefore[id].fights + 1

\* the last fight stopped at the loser's recording, two different boxers in
\* the ring
LoserRecordingFailed ==
    /\ call.op = "fight"
    /\ Len(ringBefore) = 2
    /\ ringBefore[1].id # ringBefore[2].id
    /\ Len(UpdateEvents) = 2
    /\ ~UpdateEvents[2].ok

\* C24: when fight stopped at the loser's recording and the next call is a
\* fight on the same ring that returns, each of the two boxers has one fight
\* more than before the first attempt and one win was added in total.
C24_RetryCountsOnce ==
    [][(LoserRecordingFailed /\ call'.op = "fight" /\ result'.exc = "none")
         => LET a == ring[1].id
                b == ring[2].id
            IN  /\ registry'[a].fights = registryBefore[a].fights + 1
                /\ registry'[b].fights = registryBefore[b].fights + 1
                /\ registry'[a].wins + registry'[b].wins
                      = registryBefore[a].wins + registryBefore[b].wins + 1]_vars

====
